---------------------------- MODULE Spec2Model ----------------------------
(***************************************************************************)
(* Group abstraction, MSM back ends, generator derivation, commitment      *)
(* engine and key persistence of the Nova bn256/grumpkin provider.         *)
(*                                                                         *)
(* The curve is bn256's equation y^2 = x^3 + 3 with generator (1, 2),      *)
(* taken over the base field F_7, where it has prime order 13: every       *)
(* group law, affine conversion and point encoding below is computed on    *)
(* that curve, scalars are the field F_13.                                 *)
(***************************************************************************)
EXTENDS Integers, Sequences, FiniteSets, TLC

(***************************************************************************)
(* Bounds of the model.                                                    *)
(***************************************************************************)
MaxLen == 3        \* longest scalar vector / base slice handed to an MSM
MaxThreads == 4    \* largest rayon::current_num_threads()
MaxVecs == 2       \* most scalar vectors in one batch
MaxRuns == 2       \* runs of the keygen tool over the same directory

(***************************************************************************)
(* Field and curve parameters (group_params), scaled to the small curve.   *)
(***************************************************************************)
BaseModulus == 7
GroupOrder == 13
CurveB == 3

Base == 0 .. (BaseModulus - 1)
Scalar == 0 .. (GroupOrder - 1)

FMod(a) == a % BaseModulus
FInv(a) == IF FMod(a) = 0 THEN 0 ELSE CHOOSE b \in Base : FMod(a * b) = 1

(***************************************************************************)
(* Affine points (G1Affine): the identity is the pair (0, 0), which is not *)
(* on the curve.                                                           *)
(***************************************************************************)
AffineIdentity == [x |-> 0, y |-> 0]
OnCurve(x, y) == FMod(y * y) = FMod(x * x * x + CurveB)
AffinePoints ==
  {AffineIdentity} \cup {[x |-> a, y |-> b] : <<a, b>> \in {c \in Base \X Base : OnCurve(c[1], c[2])}}

AffineNeg(p) == IF p = AffineIdentity THEN p ELSE [x |-> p.x, y |-> FMod(BaseModulus - p.y)]

AffineAddRaw(p, q) ==
  IF p = AffineIdentity THEN q
  ELSE IF q = AffineIdentity THEN p
  ELSE IF p.x = q.x /\ FMod(p.y + q.y) = 0 THEN AffineIdentity
  ELSE LET lam == IF p = q
                  THEN FMod(3 * p.x * p.x * FInv(2 * p.y))
                  ELSE FMod((q.y - p.y + BaseModulus) * FInv(q.x - p.x + BaseModulus))
           x3 == FMod(lam * lam + 2 * BaseModulus - p.x - q.x)
           y3 == FMod(lam * (p.x - x3 + BaseModulus) + BaseModulus - p.y)
       IN [x |-> x3, y |-> y3]

AddTable == [p \in AffinePoints |-> [q \in AffinePoints |-> AffineAddRaw(p, q)]]
AffineAdd(p, q) == AddTable[p][q]

(***************************************************************************)
(* Projective points (G1), Jacobian coordinates: (X, Y, Z) stands for the  *)
(* affine point (X / Z^2, Y / Z^3), Z = 0 for the identity.                *)
(***************************************************************************)
PointIdentity == [x |-> 0, y |-> 1, z |-> 0]

\* Curve::to_affine
to_affine(p) ==
  LET zinv == FInv(p.z)
      zinv2 == FMod(zinv * zinv)
  IN [x |-> FMod(p.x * zinv2), y |-> FMod(p.y * zinv2 * zinv)]

\* G1::from(G1Affine)
from_affine(a) ==
  IF a = AffineIdentity THEN PointIdentity ELSE [x |-> a.x, y |-> a.y, z |-> 1]

\* the representative of affine point a with denominator z
Rescale(a, z) ==
  IF a = AffineIdentity \/ z = 0 THEN PointIdentity
  ELSE [x |-> FMod(a.x * z * z), y |-> FMod(a.y * z * z * z), z |-> z]

\* PartialEq for G1: equality of the points, not of the representations
PointEq(p, q) == to_affine(p) = to_affine(q)

\* Add for G1
PointAdd(p, q) == from_affine(AffineAdd(to_affine(p), to_affine(q)))

RECURSIVE AffineMul(_, _)
AffineMul(a, s) == IF s = 0 THEN AffineIdentity ELSE AffineAdd(AffineMul(a, s - 1), a)

MulTable == [p \in AffinePoints |-> [s \in Scalar |-> AffineMul(p, s)]]

\* Mul<Scalar> for G1Affine and for G1
PointMul(a, s) == from_affine(MulTable[a][s])

\* Point::default()
PointDefault == PointIdentity

(***************************************************************************)
(* Outcome of a call: a value, or a panic.                                 *)
(***************************************************************************)
Ok(v) == [ok |-> TRUE, val |-> v]
Panic == [ok |-> FALSE, val |-> <<>>]

SeqsUpTo(S, k) == UNION {[1 .. m -> S] : m \in 0 .. k}
Min(a, b) == IF a <= b THEN a ELSE b

(***************************************************************************)
(* Naive accumulation, as the tests compute the expected value:            *)
(*   expected = Point::default(); expected += bases[i] * scalars[i]        *)
(***************************************************************************)
RECURSIVE NaiveSum(_, _, _)
NaiveSum(s, b, k) ==
  IF k = 0 THEN PointDefault
  ELSE PointAdd(NaiveSum(s, b, k - 1), PointMul(b[k], s[k]))

(***************************************************************************)
(* blitzar::compute::compute_bn254_g1_uncompressed_commitments_with_       *)
(* halo2_generators(commitments, data, generators): one commitment per     *)
(* sequence (column) of data, each against the leading generators; the     *)
(* generators must be at least as many as the longest sequence.            *)
(***************************************************************************)
RECURSIVE SequenceCommitment(_, _, _)
SequenceCommitment(seq, generators, j) ==
  IF j > Len(seq) THEN PointIdentity
  ELSE PointAdd(PointMul(generators[j], seq[j]), SequenceCommitment(seq, generators, j + 1))

compute_commitments(commitments, data, generators) ==
  IF \E i \in 1 .. Len(data) : Len(data[i]) > Len(generators)
  THEN Panic
  ELSE Ok([i \in 1 .. Len(commitments) |->
             IF i <= Len(data) THEN SequenceCommitment(data[i], generators, 1)
             ELSE commitments[i]])

(***************************************************************************)
(* provider::blitzar::vartime_multiscalar_mul                              *)
(***************************************************************************)
\* the scalars handed over as one sequence each, not as one sequence
blitzar_vartime_multiscalar_mul_rows(s, b) ==
  LET blitzar_commitments == <<PointDefault>>
      computed == compute_commitments(blitzar_commitments, [i \in 1 .. Len(s) |-> <<s[i]>>], b)
  IN IF computed.ok THEN Ok(computed.val[1]) ELSE Panic

blitzar_vartime_multiscalar_mul(s, b) ==
  LET blitzar_commitments == <<PointDefault>>
      computed == compute_commitments(blitzar_commitments, <<s>>, b)
  IN IF computed.ok THEN Ok(computed.val[1]) ELSE Panic

(***************************************************************************)
(* halo2curves::msm::msm_best(coeffs, bases): asserts equal lengths; with  *)
(* more terms than threads, one serial multiexp per chunk of               *)
(* len / num_threads terms, the partial sums added up.                     *)
(***************************************************************************)
RECURSIVE multiexp_serial(_, _, _, _)
multiexp_serial(coeffs, b, from, to) ==
  IF from > to THEN PointIdentity
  ELSE PointAdd(multiexp_serial(coeffs, b, from, to - 1), PointMul(b[to], coeffs[to]))

RECURSIVE SumChunks(_, _, _, _)
SumChunks(coeffs, b, chunk, c) ==
  IF c = 0 THEN PointIdentity
  ELSE PointAdd(SumChunks(coeffs, b, chunk, c - 1),
                multiexp_serial(coeffs, b, (c - 1) * chunk + 1, Min(c * chunk, Len(coeffs))))

msm_best(coeffs, b, threads) ==
  IF Len(coeffs) # Len(b) THEN Panic
  ELSE IF Len(coeffs) > threads
  THEN LET chunk == Len(coeffs) \div threads
           nchunks == (Len(coeffs) + chunk - 1) \div chunk
       IN Ok(SumChunks(coeffs, b, chunk, nchunks))
  ELSE Ok(multiexp_serial(coeffs, b, 1, Len(coeffs)))

(***************************************************************************)
(* DlogGroup for bn256::Point: vartime_multiscalar_mul, the body chosen    *)
(* by the "blitzar" build feature.                                         *)
(***************************************************************************)
\* the last term left out of the call
vartime_multiscalar_mul_cpu_short(s, b, threads) ==
  IF Len(s) = 0 \/ Len(s) # Len(b) THEN msm_best(s, b, threads)
  ELSE msm_best(SubSeq(s, 1, Len(s) - 1), SubSeq(b, 1, Len(b) - 1), threads)

vartime_multiscalar_mul_cpu(s, b, threads) == msm_best(s, b, threads)

\* the call made on the bases alone, the scalars taken as ones
vartime_multiscalar_mul_gpu_unit(s, b) ==
  blitzar_vartime_multiscalar_mul([i \in 1 .. Len(s) |-> 1], b)

vartime_multiscalar_mul_gpu(s, b) == blitzar_vartime_multiscalar_mul(s, b)

\* the scalars handed to the back end in reverse order
vartime_multiscalar_mul_reversed(feat, s, b, threads) ==
  LET rev == [i \in 1 .. Len(s) |-> s[Len(s) + 1 - i]]
  IN IF feat = "blitzar" THEN vartime_multiscalar_mul_gpu(rev, b)
     ELSE vartime_multiscalar_mul_cpu(rev, b, threads)

vartime_multiscalar_mul(feat, s, b, threads) ==
  IF feat = "blitzar" THEN vartime_multiscalar_mul_gpu(s, b)
  ELSE vartime_multiscalar_mul_cpu(s, b, threads)

(***************************************************************************)
(* DlogGroup for bn256::Point: from_label.                                 *)
(*                                                                         *)
(* Shake256 and hash_to_curve are the digest and curve libraries' own:     *)
(* XofByte is byte number pos of the XOF stream of a label, a fixed        *)
(* function of the label's bytes and the position; hash_to_curve maps a    *)
(* seed to a projective point other than the identity, whose Z is in       *)
(* general not 1.                                                          *)
(***************************************************************************)
SeedLen == 32

RECURSIVE ByteSum(_, _)
ByteSum(bytes, k) == IF k = 0 THEN 0 ELSE ByteSum(bytes, k - 1) + k * bytes[k]

XofByte(label, pos) ==
  LET s == ByteSum(label, Len(label)) + pos IN (s * s + 93 * pos) % 251

\* the bytes read_exact returns on the i-th pass of the loop (i from 0)
uniform_bytes(label, i) == [k \in 1 .. SeedLen |-> XofByte(label, SeedLen * i + k - 1)]

Generator == [x |-> 1, y |-> 2]

hash_to_curve(seed) ==
  LET h == ByteSum(seed, SeedLen)
  IN Rescale(MulTable[Generator][1 + (h % (GroupOrder - 1))],
             1 + ((h \div GroupOrder) % (BaseModulus - 1)))

\* Curve::batch_normalize(points, &mut out): the affine form of each point
batch_normalize(points) == [j \in 1 .. Len(points) |-> to_affine(points[j])]

\* (len as f64 / num_threads as f64).ceil() as usize
CeilDiv(a, b) == (a + b - 1) \div b

\* the slice gens_proj[start..end] worker i normalizes (0-based, end exclusive)
\* every worker after the first starting one element early
chunk_start_overlap(i, chunk) == IF i = 0 THEN 0 ELSE i * chunk - 1

chunk_start(i, chunk) == i * chunk

chunk_end(i, chunk, len, threads) ==
  IF i = threads - 1 THEN len ELSE Min((i + 1) * chunk, len)

normalize_chunk(gens_proj, i, chunk, threads) ==
  LET start == chunk_start(i, chunk)
      end == chunk_end(i, chunk, Len(gens_proj), threads)
  IN IF end > start THEN batch_normalize(SubSeq(gens_proj, start + 1, end)) ELSE <<>>

\* the workers' vectors concatenated last worker first
RECURSIVE flat_collect_reversed(_, _)
flat_collect_reversed(parts, k) ==
  IF k = 0 THEN <<>> ELSE parts[k] \o flat_collect_reversed(parts, k - 1)

\* flat_map(..).collect(): the workers' vectors, concatenated in index order
RECURSIVE flat_collect(_, _)
flat_collect(parts, k) == IF k = 0 THEN <<>> ELSE flat_collect(parts, k - 1) \o parts[k]

gens_proj_of(label, count) == [j \in 1 .. count |-> hash_to_curve(uniform_bytes(label, j - 1))]

from_label(label, count, threads) ==
  LET gens_proj == gens_proj_of(label, count)
  IN IF Len(gens_proj) > threads
     THEN LET chunk == CeilDiv(Len(gens_proj), threads)
          IN flat_collect([w \in 1 .. threads |-> normalize_chunk(gens_proj, w - 1, chunk, threads)],
                          threads)
     ELSE batch_normalize(gens_proj)

(***************************************************************************)
(* DlogGroup for bn256::Point: to_coordinates.                             *)
(***************************************************************************)
\* CurveAffine::coordinates: none for the identity
coordinates(a) == [is_some |-> a # AffineIdentity /\ OnCurve(a.x, a.y), x |-> a.x, y |-> a.y]

\* the coordinates read off the projective representation
to_coordinates_projective(p) ==
  IF p.z # 0 THEN <<p.x, p.y, FALSE>> ELSE <<0, 0, TRUE>>

to_coordinates(p) ==
  LET c == coordinates(to_affine(p))
  IN IF c.is_some /\ AffineIdentity # to_affine(p)
     THEN <<c.x, c.y, FALSE>>
     ELSE <<0, 0, TRUE>>

(***************************************************************************)
(* DlogGroup for G2, TranscriptReprTrait for G2Affine.  G2 is a group of   *)
(* the same prime order; its elements are written as points of the small   *)
(* curve.  unimplemented!() panics whatever the arguments are.             *)
(***************************************************************************)
G2Identity == PointIdentity
G2Generator == Rescale(MulTable[Generator][3], 1)

G2_vartime_multiscalar_mul(s, b, threads) == msm_best(s, b, threads)

G2_affine(p) == Ok(to_affine(p))

G2_group(a) == Ok(from_affine(a))

\* an empty generator list returned in place of the panic
G2_from_label_empty(l, n) == Ok(<<>>)

G2_from_label(l, n) == Panic

G2_zero == Ok(G2Identity)

G2_gen == Ok(G2Generator)

G2_to_coordinates(p) == Panic

G2Affine_to_transcript_bytes(a) == Panic

(***************************************************************************)
(* Commitment engine (CommitmentEngineTrait).  A key is its data           *)
(* generators ck and its blinding generator h.                             *)
(***************************************************************************)
\* setup(label, n): n + 1 generators from the label, the last one the blind
setup(label, count, threads) ==
  LET gens == from_label(label, count + 1, threads)
  IN [ck |-> SubSeq(gens, 1, count), h |-> gens[count + 1]]

\* commit(ck, v, r): one MSM of v ++ [r] against G_0 .. G_{len(v)-1}, H
commit(feat, key, v, r, threads) ==
  IF Len(v) > Len(key.ck) THEN Panic
  ELSE vartime_multiscalar_mul(feat, Append(v, r),
                               Append(SubSeq(key.ck, 1, Len(v)), key.h), threads)

\* derand_key(ck): the blinding generator
derand_key(key) == key.h

\* derandomize(dk, commit, r): commit - dk * r
derandomize(dk, c, r) == PointAdd(c, PointMul(AffineNeg(dk), r))

\* a fresh blind (zero) for every vector after the first
multi_commit_first_blind(feat, key, vs, r, threads) ==
  LET each == [j \in 1 .. Len(vs) |-> commit(feat, key, vs[j], IF j = 1 THEN r ELSE 0, threads)]
  IN IF \E j \in 1 .. Len(vs) : ~each[j].ok THEN Panic
     ELSE Ok([j \in 1 .. Len(vs) |-> each[j].val])

\* multi_commit(ck, v, r): v.iter().map(|v_i| commit(ck, v_i, r)).collect()
multi_commit(feat, key, vs, r, threads) ==
  LET each == [j \in 1 .. Len(vs) |-> commit(feat, key, vs[j], r, threads)]
  IN IF \E j \in 1 .. Len(vs) : ~each[j].ok THEN Panic
     ELSE Ok([j \in 1 .. Len(vs) |-> each[j].val])

(***************************************************************************)
(* DlogGroup for bn256::Point: batch_vartime_multiscalar_mul, one item.    *)
(***************************************************************************)
\* cpu: the closure of par_iter().map(..), with bases[..scalar.len()]
batch_item_cpu(scalar, b, threads) ==
  IF Len(scalar) > Len(b) THEN Panic
  ELSE vartime_multiscalar_mul_cpu(scalar, SubSeq(b, 1, Len(scalar)), threads)

\* gpu: one call of the single-item accelerator path per item
batch_item_gpu(scalar, b) == blitzar_vartime_multiscalar_mul(scalar, b)

\* results placed in the order the workers finish
result_index_by_completion(j, finished) == finished + 1

\* par_iter().map(..).collect::<Vec<_>>(): the position in the result of
\* the item of index j, whatever number of items finished before it
result_index(j, finished) == j

(***************************************************************************)
(* Key persistence.  A stream is a sequence of words: the capacity header, *)
(* then each generator's encoding, then the blind's.  A compressed point   *)
(* is one word (x, with the sign of y and the identity flag above it), an  *)
(* uncompressed point the two words x, y.                                  *)
(***************************************************************************)
SignBit(y) == IF 2 * y > BaseModulus THEN 1 ELSE 0

encode_point(a, compress) ==
  IF compress
  THEN IF a = AffineIdentity THEN <<2 * BaseModulus>>
       ELSE <<a.x + BaseModulus * SignBit(a.y)>>
  ELSE <<a.x, a.y>>

point_size(compress) == IF compress THEN 1 ELSE 2

decode_point(w, compress) ==
  IF compress
  THEN IF w[1] = 2 * BaseModulus THEN Ok(AffineIdentity)
       ELSE LET x == w[1] % BaseModulus
                sign == w[1] \div BaseModulus
                ys == {y \in Base : OnCurve(x, y) /\ SignBit(y) = sign}
            IN IF ys = {} THEN Panic ELSE Ok([x |-> x, y |-> CHOOSE y \in ys : TRUE])
  ELSE IF w[1] \in Base /\ w[2] \in Base /\ (OnCurve(w[1], w[2]) \/ (w[1] = 0 /\ w[2] = 0))
       THEN Ok([x |-> w[1], y |-> w[2]])
       ELSE Panic

RECURSIVE encode_points(_, _, _)
encode_points(points, k, compress) ==
  IF k = 0 THEN <<>>
  ELSE encode_points(points, k - 1, compress) \o encode_point(points[k], compress)

\* save_to(key, writer, compress): the words written
save_to(key, compress) ==
  <<Len(key.ck)>> \o encode_points(key.ck, Len(key.ck), compress) \o encode_point(key.h, compress)

\* load_setup(reader, n, compress): Err on a truncated stream or a bad point
load_setup(stream, count, compress) ==
  LET size == point_size(compress)
      word(j) == SubSeq(stream, 2 + (j - 1) * size, 1 + j * size)
      pts == [j \in 1 .. count + 1 |-> decode_point(word(j), compress)]
  IN IF Len(stream) < 1 + (count + 1) * size THEN Panic
     ELSE IF \E j \in 1 .. count + 1 : ~pts[j].ok THEN Panic
     ELSE Ok([ck |-> [j \in 1 .. count |-> pts[j].val], h |-> pts[count + 1].val])

\* a file: present or not, and its words
NoFile == [exists |-> FALSE, words |-> <<>>]
File(words) == [exists |-> TRUE, words |-> words]

\* check_sanity_of_ptau_file(path, expected, _): the header alone
check_sanity_of_ptau_file(file, expected) ==
  file.exists /\ Len(file.words) >= 1 /\ file.words[1] + 1 >= expected

\* get_key_file_path(num_gens, compress)
get_key_file_path(num_gens, compress) ==
  <<"kzg", num_gens, IF compress THEN "compressed" ELSE "uncompressed">>

(***************************************************************************)
(* The state machine.  Each behaviour exercises one operation (op) on      *)
(* inputs drawn in Init, under one build (feature) and one thread pool     *)
(* size (num_threads).                                                     *)
(***************************************************************************)
VARIABLES
  op,           \* the operation exercised
  pc,           \* where the operation stands
  feature,      \* "cpu" or "blitzar": the build's MSM back end
  num_threads,  \* rayon::current_num_threads()
  scalars,      \* the scalar vectors passed (one for a single MSM or commit)
  bases,        \* the bases passed / the data generators of the key
  hgen,         \* the blinding generator of the key
  blind,        \* the blind r
  label,        \* from_label: the label
  count,        \* from_label: n
  point,        \* to_coordinates: the point
  todo,         \* batch: items no worker has taken yet
  slots,        \* batch: the output slot of each item
  out,          \* the operation's outcome
  fs,           \* keygen: the files at the key paths
  writer,       \* keygen: the words held by the BufWriter
  key,          \* keygen: the generated key
  compress,     \* keygen: the argument of the current keygen_save_large call
  runs          \* keygen: runs of main started so far

vars == <<op, pc, feature, num_threads, scalars, bases, hgen, blind, label, count,
          point, todo, slots, out, fs, writer, key, compress, runs>>

inputs == <<op, feature, num_threads, scalars, bases, hgen, blind, label, count, point>>
keygen_vars == <<fs, writer, key, compress, runs>>

Labels == {<<116, 101, 115, 116>>, <<99, 107>>}
TestLabel == <<116, 101, 115, 116>>

\* Scalar::random / Affine::random, from a few values
ScalarVals == {1, 2, 3}
BlindVals == {0, 5}
BaseVals == {Generator, MulTable[Generator][5]}

\* scalar vectors of a batch: a length and a stride
BatchVector(len, stride) == [i \in 1 .. len |-> (stride * i) % GroupOrder]
BatchVectors == {BatchVector(len, stride) : len \in 0 .. MaxLen, stride \in {1, 6}}

MaxGens == MaxLen + 1
Threads == 1 .. MaxThreads
Features == {"cpu", "blitzar"}

TheKey == [ck |-> bases, h |-> hgen]

\* G1 points in every representation
Points ==
  {PointIdentity} \cup {Rescale(a, z) : a \in AffinePoints \ {AffineIdentity}, z \in 1 .. (BaseModulus - 1)}

\* the tool's constants, MAX_NUM_GENS and BUFFER_SIZE scaled down
MAX_NUM_GENS == 2
BUFFER_SIZE == 3
LABEL == TestLabel

KeyPaths == {get_key_file_path(MAX_NUM_GENS, c) : c \in BOOLEAN}

\* setup_from_rng(LABEL, n, OsRng): a key of n generators, drawn at random
RandomKeys == {setup(l, MAX_NUM_GENS, 1) : l \in Labels \cup {LABEL}}

Idle ==
  /\ pc = "start" /\ todo = {} /\ slots = <<>> /\ out = Panic
  /\ fs = [p \in KeyPaths |-> NoFile] /\ writer = <<>>
  /\ key = [ck |-> <<>>, h |-> AffineIdentity] /\ compress = FALSE /\ runs = 0

NoKey == bases = <<>> /\ hgen = AffineIdentity /\ blind = 0
NoLabel == label = <<>> /\ count = 0
NoPoint == point = PointIdentity

InitMsm ==
  /\ op = "msm"
  /\ \E s \in SeqsUpTo(ScalarVals \cup {0}, MaxLen) : scalars = <<s>>
  /\ bases \in SeqsUpTo(BaseVals, MaxLen)
  /\ hgen = AffineIdentity /\ blind = 0 /\ NoLabel /\ NoPoint

InitBatch ==
  /\ op = "batch"
  /\ scalars \in SeqsUpTo(BatchVectors, MaxVecs)
  /\ \E m \in {MaxLen - 1, MaxLen} : bases = from_label(TestLabel, m, 1)
  /\ hgen = AffineIdentity /\ blind = 0 /\ NoLabel /\ NoPoint

InitCommit ==
  /\ op = "commit"
  /\ \E v \in SeqsUpTo(ScalarVals, MaxLen) : scalars = <<v>>
  /\ \E m \in 0 .. MaxGens :
       /\ bases = setup(TestLabel, m, 1).ck
       /\ hgen = setup(TestLabel, m, 1).h
  /\ blind \in BlindVals
  /\ NoLabel /\ NoPoint

InitMultiCommit ==
  /\ op = "multi_commit"
  /\ scalars \in SeqsUpTo(BatchVectors, MaxVecs)
  /\ \E m \in {MaxLen - 1, MaxLen} :
       /\ bases = setup(TestLabel, m, 1).ck
       /\ hgen = setup(TestLabel, m, 1).h
  /\ blind \in BlindVals
  /\ NoLabel /\ NoPoint

InitFromLabel ==
  /\ op = "from_label"
  /\ label \in Labels /\ count \in 0 .. (MaxGens + 1)
  /\ scalars = <<>> /\ NoKey /\ NoPoint

InitCoordinates ==
  /\ op = "to_coordinates"
  /\ point \in Points
  /\ scalars = <<>> /\ NoKey /\ NoLabel

InitKeygen ==
  /\ op = "keygen"
  /\ scalars = <<>> /\ NoKey /\ NoLabel /\ NoPoint

\* the operations of G2, one call each
InitG2FromLabel ==
  /\ op = "g2_from_label"
  /\ label \in Labels /\ count \in 0 .. MaxGens
  /\ scalars = <<>> /\ NoKey /\ NoPoint

InitG2ToCoordinates ==
  /\ op = "g2_to_coordinates"
  /\ point \in Points
  /\ scalars = <<>> /\ NoKey /\ NoLabel

InitG2ToTranscriptBytes ==
  /\ op = "g2affine_to_transcript_bytes"
  /\ hgen \in AffinePoints
  /\ scalars = <<>> /\ bases = <<>> /\ blind = 0 /\ NoLabel /\ NoPoint

InitG2Zero ==
  /\ op = "g2_zero"
  /\ scalars = <<>> /\ NoKey /\ NoLabel /\ NoPoint

InitG2Gen ==
  /\ op = "g2_gen"
  /\ scalars = <<>> /\ NoKey /\ NoLabel /\ NoPoint

InitG2Affine ==
  /\ op = "g2_affine"
  /\ point \in Points
  /\ scalars = <<>> /\ NoKey /\ NoLabel

InitG2Group ==
  /\ op = "g2_group"
  /\ hgen \in AffinePoints
  /\ scalars = <<>> /\ bases = <<>> /\ blind = 0 /\ NoLabel /\ NoPoint

InitG2Msm ==
  /\ op = "g2_vartime_multiscalar_mul"
  /\ \E s \in SeqsUpTo(ScalarVals, MaxLen) : scalars = <<s>>
  /\ bases \in SeqsUpTo(BaseVals, MaxLen)
  /\ hgen = AffineIdentity /\ blind = 0 /\ NoLabel /\ NoPoint

Init ==
  /\ feature \in Features
  /\ num_threads \in Threads
  /\ Idle
  /\ \/ InitMsm
     \/ InitBatch
     \/ InitCommit
     \/ InitMultiCommit
     \/ InitFromLabel
     \/ InitCoordinates
     \/ InitKeygen
     \/ InitG2FromLabel
     \/ InitG2ToCoordinates
     \/ InitG2ToTranscriptBytes
     \/ InitG2Zero
     \/ InitG2Gen
     \/ InitG2Affine
     \/ InitG2Group
     \/ InitG2Msm

(***************************************************************************)
(* vartime_multiscalar_mul(scalars, bases)                                 *)
(***************************************************************************)
MsmCall ==
  /\ op = "msm" /\ pc = "start"
  /\ out' = vartime_multiscalar_mul(feature, scalars[1], bases, num_threads)
  /\ pc' = "done"
  /\ UNCHANGED <<inputs, todo, slots, keygen_vars>>

(***************************************************************************)
(* batch_vartime_multiscalar_mul(scalars, bases): cpu, one rayon task per  *)
(* scalar vector, each writing the slot of its index; gpu, the items in    *)
(* order.  A panicking item panics the call.                               *)
(***************************************************************************)
BatchStart ==
  /\ op = "batch" /\ pc = "start"
  /\ todo' = 1 .. Len(scalars)
  /\ slots' = [j \in 1 .. Len(scalars) |-> PointDefault]
  /\ pc' = "running"
  /\ UNCHANGED <<inputs, out, keygen_vars>>

BatchFinish(j, r) ==
  /\ todo' = todo \ {j}
  /\ IF r.ok
     THEN /\ slots' = [slots EXCEPT ![result_index(j, Len(scalars) - Cardinality(todo))] = r.val]
          /\ pc' = pc /\ out' = out
     ELSE slots' = slots /\ pc' = "done" /\ out' = Panic
  /\ UNCHANGED <<inputs, keygen_vars>>

BatchWorkerCpu(j) ==
  /\ op = "batch" /\ pc = "running" /\ feature = "cpu"
  /\ j \in todo
  /\ BatchFinish(j, batch_item_cpu(scalars[j], bases, num_threads))

BatchNextGpu ==
  /\ op = "batch" /\ pc = "running" /\ feature = "blitzar"
  /\ todo # {}
  /\ LET j == CHOOSE i \in todo : \A k \in todo : i <= k
     IN BatchFinish(j, batch_item_gpu(scalars[j], bases))

BatchCollect ==
  /\ op = "batch" /\ pc = "running"
  /\ todo = {}
  /\ out' = Ok(slots)
  /\ pc' = "done"
  /\ UNCHANGED <<inputs, todo, slots, keygen_vars>>

(***************************************************************************)
(* commit(ck, v, r), then derandomize(derand_key(ck), commitment, r)       *)
(***************************************************************************)
CommitCall ==
  /\ op = "commit" /\ pc = "start"
  /\ LET c == commit(feature, TheKey, scalars[1], blind, num_threads)
     IN /\ slots' = IF c.ok THEN <<c.val>> ELSE <<>>
        /\ out' = c
        /\ pc' = IF c.ok THEN "committed" ELSE "done"
  /\ UNCHANGED <<inputs, todo, keygen_vars>>

DerandomizeCall ==
  /\ op = "commit" /\ pc = "committed"
  /\ out' = Ok(derandomize(derand_key(TheKey), slots[1], blind))
  /\ pc' = "done"
  /\ UNCHANGED <<inputs, todo, slots, keygen_vars>>

MultiCommitCall ==
  /\ op = "multi_commit" /\ pc = "start"
  /\ out' = multi_commit(feature, TheKey, scalars, blind, num_threads)
  /\ pc' = "done"
  /\ UNCHANGED <<inputs, todo, slots, keygen_vars>>

(***************************************************************************)
(* from_label(label, n) and to_coordinates(point)                          *)
(***************************************************************************)
FromLabelCall ==
  /\ op = "from_label" /\ pc = "start"
  /\ out' = Ok(from_label(label, count, num_threads))
  /\ pc' = "done"
  /\ UNCHANGED <<inputs, todo, slots, keygen_vars>>

ToCoordinatesCall ==
  /\ op = "to_coordinates" /\ pc = "start"
  /\ out' = Ok(to_coordinates(point))
  /\ pc' = "done"
  /\ UNCHANGED <<inputs, todo, slots, keygen_vars>>

(***************************************************************************)
(* The operations of G2 and G2Affine.                                      *)
(***************************************************************************)
G2MsmCall ==
  /\ op = "g2_vartime_multiscalar_mul" /\ pc = "start"
  /\ out' = G2_vartime_multiscalar_mul(scalars[1], bases, num_threads)
  /\ pc' = "done"
  /\ UNCHANGED <<inputs, todo, slots, keygen_vars>>

G2AffineCall ==
  /\ op = "g2_affine" /\ pc = "start"
  /\ out' = G2_affine(point)
  /\ pc' = "done"
  /\ UNCHANGED <<inputs, todo, slots, keygen_vars>>

G2GroupCall ==
  /\ op = "g2_group" /\ pc = "start"
  /\ out' = G2_group(hgen)
  /\ pc' = "done"
  /\ UNCHANGED <<inputs, todo, slots, keygen_vars>>

G2FromLabelCall ==
  /\ op = "g2_from_label" /\ pc = "start"
  /\ out' = G2_from_label(label, count)
  /\ pc' = "done"
  /\ UNCHANGED <<inputs, todo, slots, keygen_vars>>

G2ZeroCall ==
  /\ op = "g2_zero" /\ pc = "start"
  /\ out' = G2_zero
  /\ pc' = "done"
  /\ UNCHANGED <<inputs, todo, slots, keygen_vars>>

G2GenCall ==
  /\ op = "g2_gen" /\ pc = "start"
  /\ out' = G2_gen
  /\ pc' = "done"
  /\ UNCHANGED <<inputs, todo, slots, keygen_vars>>

G2ToCoordinatesCall ==
  /\ op = "g2_to_coordinates" /\ pc = "start"
  /\ out' = G2_to_coordinates(point)
  /\ pc' = "done"
  /\ UNCHANGED <<inputs, todo, slots, keygen_vars>>

G2ToTranscriptBytesCall ==
  /\ op = "g2affine_to_transcript_bytes" /\ pc = "start"
  /\ out' = G2Affine_to_transcript_bytes(hgen)
  /\ pc' = "done"
  /\ UNCHANGED <<inputs, todo, slots, keygen_vars>>

(***************************************************************************)
(* The keygen tool: main runs keygen_save_large(false), then               *)
(* keygen_save_large(true); the files stay for the next run.               *)
(***************************************************************************)
path == get_key_file_path(MAX_NUM_GENS, compress)

KeygenMain ==
  /\ op = "keygen" /\ pc \in {"start", "exit", "panicked"}
  /\ runs < MaxRuns
  /\ runs' = runs + 1
  /\ compress' = FALSE
  /\ writer' = <<>>
  /\ out' = Panic
  /\ pc' = "check"
  /\ UNCHANGED <<inputs, todo, slots, fs, key>>

\* if check_sanity_of_ptau_file(&path, MAX_NUM_GENS + 1, 1).is_err()
KeygenCheck ==
  /\ op = "keygen" /\ pc = "check"
  /\ pc' = IF check_sanity_of_ptau_file(fs[path], MAX_NUM_GENS + 1) THEN "load" ELSE "generate"
  /\ UNCHANGED <<inputs, todo, slots, out, keygen_vars>>

\* setup_from_rng, then open with create and truncate, behind a BufWriter
KeygenGenerate ==
  /\ op = "keygen" /\ pc = "generate"
  /\ key' \in RandomKeys
  /\ fs' = [fs EXCEPT ![path] = File(<<>>)]
  /\ writer' = <<>>
  /\ pc' = "save"
  /\ UNCHANGED <<inputs, todo, slots, out, compress, runs>>

\* ck.save_to(&mut writer, compress).unwrap(): the BufWriter passes full
\* buffers on to the file and keeps the rest
KeygenSave ==
  /\ op = "keygen" /\ pc = "save"
  /\ LET words == save_to(key, compress)
         flushed == BUFFER_SIZE * ((Len(words) - 1) \div BUFFER_SIZE)
     IN /\ fs' = [fs EXCEPT ![path] = File(SubSeq(words, 1, flushed))]
        /\ writer' = SubSeq(words, flushed + 1, Len(words))
  /\ pc' = "drop"
  /\ UNCHANGED <<inputs, todo, slots, out, key, compress, runs>>

\* a write fails (the disk is full): k words are in the file, unwrap panics
KeygenSaveFails ==
  /\ op = "keygen" /\ pc = "save"
  /\ \E k \in 0 .. (Len(save_to(key, compress)) - 1) :
       fs' = [fs EXCEPT ![path] = File(SubSeq(save_to(key, compress), 1, k))]
  /\ writer' = <<>>
  /\ pc' = "panicked"
  /\ UNCHANGED <<inputs, todo, slots, out, key, compress, runs>>

\* the end of the if block drops the writer, which flushes it
KeygenDropWriter ==
  /\ op = "keygen" /\ pc = "drop"
  /\ fs' = [fs EXCEPT ![path] = File(fs[path].words \o writer)]
  /\ writer' = <<>>
  /\ pc' = "load"
  /\ UNCHANGED <<inputs, todo, slots, out, key, compress, runs>>

\* load_setup(&mut reader, MAX_NUM_GENS, compress)
KeygenLoad ==
  /\ op = "keygen" /\ pc = "load"
  /\ out' = load_setup(fs[path].words, MAX_NUM_GENS, compress)
  /\ pc' = "assert"
  /\ UNCHANGED <<inputs, todo, slots, keygen_vars>>

\* assert!(res.is_ok()), then the next call of main or its end
KeygenAssert ==
  /\ op = "keygen" /\ pc = "assert"
  /\ IF ~out.ok THEN pc' = "panicked" /\ compress' = compress
     ELSE IF compress THEN pc' = "exit" /\ compress' = compress
     ELSE pc' = "check" /\ compress' = TRUE
  /\ UNCHANGED <<inputs, todo, slots, out, fs, writer, key, runs>>

Next ==
  \/ MsmCall
  \/ BatchStart
  \/ \E j \in 1 .. MaxVecs : BatchWorkerCpu(j)
  \/ BatchNextGpu
  \/ BatchCollect
  \/ CommitCall
  \/ DerandomizeCall
  \/ MultiCommitCall
  \/ FromLabelCall
  \/ ToCoordinatesCall
  \/ KeygenMain
  \/ KeygenCheck
  \/ KeygenGenerate
  \/ KeygenSave
  \/ KeygenSaveFails
  \/ KeygenDropWriter
  \/ KeygenLoad
  \/ KeygenAssert
  \/ G2MsmCall
  \/ G2AffineCall
  \/ G2GroupCall
  \/ G2FromLabelCall
  \/ G2ZeroCall
  \/ G2GenCall
  \/ G2ToCoordinatesCall
  \/ G2ToTranscriptBytesCall

Spec == Init /\ [][Next]_vars

(***************************************************************************)
(* Properties.                                                             *)
(***************************************************************************)
MsmDone == op = "msm" /\ pc = "done"

\* C1: for scalars and bases of equal length k >= 0, vartime_multiscalar_mul
\* returns the naive accumulation of scalars[i] * bases[i] from the
\* identity; for k = 0 it returns Point::default().
C1_MsmIsNaiveSum ==
  (MsmDone /\ Len(scalars[1]) = Len(bases)) =>
    /\ out.ok
    /\ PointEq(out.val, NaiveSum(scalars[1], bases, Len(bases)))
    /\ (Len(bases) = 0 => PointEq(out.val, PointDefault))

C1_Witness ==
  /\ MsmDone /\ feature = "blitzar"
  /\ Len(scalars[1]) = MaxLen /\ Len(bases) = MaxLen
  /\ \A i \in 1 .. MaxLen : scalars[1][i] # 0
  /\ out.ok /\ ~PointEq(out.val, PointDefault)

\* C2: on the same scalars and bases of equal length, the accelerator back
\* end and the CPU back end (msm_best) return equal group elements.
C2_BackendsAgree ==
  (MsmDone /\ Len(scalars[1]) = Len(bases)) =>
    LET gpu == blitzar_vartime_multiscalar_mul(scalars[1], bases)
        cpu == msm_best(scalars[1], bases, num_threads)
        other == IF feature = "blitzar" THEN cpu ELSE gpu
    IN out.ok /\ other.ok /\ PointEq(out.val, other.val)

C2_Witness ==
  /\ MsmDone /\ feature = "cpu" /\ num_threads = 2
  /\ Len(scalars[1]) = MaxLen /\ Len(bases) = MaxLen
  /\ bases[1] # bases[2]
  /\ out.ok /\ ~PointEq(out.val, PointDefault)

CommitDone == op = "commit" /\ pc # "start"
TheVector == scalars[1]

\* the key with the generators from index m on replaced by another point
WithOtherTail(m) ==
  [ck |-> [j \in 1 .. Len(bases) |-> IF j <= m THEN bases[j] ELSE Generator], h |-> hgen]
Truncated(m) == [ck |-> SubSeq(bases, 1, m), h |-> hgen]

\* C3: for a key G_0 .. G_{n-1}, H, a vector v with len(v) <= n and a blind
\* r, commit(ck, v, r) is the sum of v_i * G_i over i < len(v), plus r * H;
\* the generators from G_{len(v)} on do not take part.
C3_CommitIsPedersen ==
  (CommitDone /\ Len(TheVector) <= Len(bases)) =>
    /\ Len(slots) = 1
    /\ PointEq(slots[1],
               PointAdd(NaiveSum(TheVector, bases, Len(TheVector)), PointMul(hgen, blind)))
    /\ \A k \in {WithOtherTail(Len(TheVector)), Truncated(Len(TheVector))} :
         LET c == commit(feature, k, TheVector, blind, num_threads)
         IN c.ok /\ PointEq(slots[1], c.val)

\* ck = setup(b"test", 4), v = [1, 2, 3], r = 0
C3_Witness ==
  /\ CommitDone /\ pc = "committed"
  /\ TheKey = setup(TestLabel, 4, 1)
  /\ TheVector = <<1, 2, 3>> /\ blind = 0
  /\ PointEq(slots[1],
             PointAdd(PointAdd(PointMul(bases[1], 1), PointMul(bases[2], 2)), PointMul(bases[3], 3)))

\* C4: derandomize(derand_key(ck), commit(ck, v, r), r) = commit(ck, v, 0)
\* for every v no longer than the key and every blind r, derand_key(ck)
\* being the blinding generator H of ck.
C4_DerandomizeRemovesBlind ==
  (op = "commit" /\ pc = "done" /\ Len(TheVector) <= Len(bases)) =>
    LET plain == commit(feature, TheKey, TheVector, 0, num_threads)
    IN /\ out.ok /\ plain.ok
       /\ PointEq(out.val, plain.val)
       /\ derand_key(TheKey) = hgen

C4_Witness ==
  /\ op = "commit" /\ pc = "done" /\ out.ok
  /\ blind # 0 /\ Len(TheVector) >= 2 /\ Len(TheVector) < Len(bases)
  /\ ~PointEq(out.val, slots[1])

AllFit == \A j \in 1 .. Len(scalars) : Len(scalars[j]) <= Len(bases)

\* C5: multi_commit(ck, vs, r) has the length of vs, its j-th element is
\* commit(ck, vs[j], r) with the one blind r for every vector, in the order
\* of vs; for empty vs it is empty.
C5_MultiCommitIsCommitEach ==
  (op = "multi_commit" /\ pc = "done" /\ AllFit) =>
    /\ out.ok
    /\ Len(out.val) = Len(scalars)
    /\ \A j \in 1 .. Len(scalars) :
         LET c == commit(feature, TheKey, scalars[j], blind, num_threads)
         IN c.ok /\ PointEq(out.val[j], c.val)

C5_Witness ==
  /\ op = "multi_commit" /\ pc = "done" /\ out.ok
  /\ Len(scalars) = MaxVecs /\ blind # 0
  /\ Len(scalars[1]) # Len(scalars[MaxVecs]) /\ Len(scalars[MaxVecs]) > 0
  /\ ~PointEq(out.val[1], out.val[MaxVecs])

\* C6: batch_vartime_multiscalar_mul(scalars, bases) returns len(scalars)
\* results, and under every interleaving of the workers result[j] is
\* vartime_multiscalar_mul(scalars[j], bases[0 .. len(scalars[j])]), in the
\* order of the scalar vectors.
C6_BatchIsMsmEach ==
  (op = "batch" /\ pc = "done" /\ AllFit) =>
    /\ out.ok
    /\ Len(out.val) = Len(scalars)
    /\ \A j \in 1 .. Len(scalars) :
         LET m == vartime_multiscalar_mul(feature, scalars[j],
                                          SubSeq(bases, 1, Len(scalars[j])), num_threads)
         IN m.ok /\ PointEq(out.val[j], m.val)

C6_Witness ==
  /\ op = "batch" /\ pc = "done" /\ out.ok /\ feature = "cpu"
  /\ Len(scalars) = MaxVecs
  /\ Len(scalars[1]) > 0 /\ Len(scalars[1]) < Len(bases)
  /\ ~PointEq(out.val[1], out.val[MaxVecs])

\* C7: from_label(L, n) is the same sequence whatever the number of
\* workers, it is the first n generators of from_label(L, n2) for every
\* n2 >= n, and generator i comes from bytes [32i, 32i + 32) of the XOF
\* stream of L alone.
C7_FromLabelDeterministicPrefix ==
  (op = "from_label" /\ pc = "done") =>
    /\ Len(out.val) = count
    /\ \A t \in Threads : \A n2 \in count .. (MaxGens + 1) :
         out.val = SubSeq(from_label(label, n2, t), 1, count)
    /\ \A i \in 0 .. (count - 1) :
         out.val[i + 1] =
           to_affine(hash_to_curve([k \in 1 .. SeedLen |-> XofByte(label, SeedLen * i + k - 1)]))

C7_Witness ==
  /\ op = "from_label" /\ pc = "done"
  /\ count > num_threads /\ num_threads > 1
  /\ count < MaxGens
  /\ \A i \in 1 .. count : \A j \in 1 .. count : i # j => out.val[i] # out.val[j]

\* C9: to_coordinates returns (0, 0, true) for the identity and
\* (x, y, false), x and y the affine coordinates, for every other point;
\* the flag is true exactly for the identity.
C9_ToCoordinates ==
  (op = "to_coordinates" /\ pc = "done") =>
    LET c == out.val
        z2 == point.z * point.z
    IN /\ (c[3] <=> point.z = 0)
       /\ (point.z = 0 => c = <<0, 0, TRUE>>)
       /\ (point.z # 0 =>
             /\ c[1] \in Base /\ c[2] \in Base
             /\ FMod(c[1] * z2) = point.x
             /\ FMod(c[2] * z2 * point.z) = point.y
             /\ OnCurve(c[1], c[2]))

C9_Witness ==
  /\ op = "to_coordinates" /\ pc = "done"
  /\ point.z > 1
  /\ out.val[3] = FALSE /\ <<out.val[1], out.val[2]>> # <<point.x, point.y>>

\* C8: what load_setup(reader, n, compress) reads from the words written by
\* save_to(key, writer, compress) is key, for either encoding; so the
\* load_setup that ends keygen_save_large, on the file at the path chosen
\* for (num_gens, compress), always returns Ok.
C8_KeygenLoadIsOk ==
  (op = "keygen" /\ pc = "assert") =>
    /\ out.ok
    /\ (fs[path].words = save_to(key, compress) => out.val = key)

\* the round trip alone, on a file the same call wrote in full
C8_RoundTrip ==
  (op = "keygen" /\ pc = "assert" /\ fs[path].words = save_to(key, compress)) =>
    out.ok /\ out.val = key

\* C10: a violated precondition ends in a panic or an error, never in a
\* group element: vartime_multiscalar_mul with len(scalars) # len(bases),
\* batch_vartime_multiscalar_mul and commit with a scalar vector longer
\* than the bases or the key.
C10_FailFast ==
  /\ (MsmDone /\ Len(scalars[1]) # Len(bases)) => ~out.ok
  /\ (op \in {"batch", "commit", "multi_commit"} /\ pc = "done" /\ ~AllFit) => ~out.ok

\* the part of C10 about vectors longer than the bases or the key
C10_TooLongPanics ==
  /\ (MsmDone /\ Len(scalars[1]) > Len(bases)) => ~out.ok
  /\ (op \in {"batch", "commit", "multi_commit"} /\ pc = "done" /\ ~AllFit) => ~out.ok

\* C11: on G2, from_label and to_coordinates, and on G2Affine
\* to_transcript_bytes, fail for every input and return no value (no
\* generator list, no coordinate triple); zero, gen, affine, group and
\* vartime_multiscalar_mul return their value: the identity, the generator,
\* the affine and the projective form of the argument, and the sum of
\* scalars[i] * bases[i] for vectors of equal length.
G2Unsupported == {"g2_from_label", "g2_to_coordinates", "g2affine_to_transcript_bytes"}

C11_G2Unsupported ==
  (pc = "done") =>
    /\ (op \in G2Unsupported => ~out.ok)
    /\ (op = "g2_zero" => out.ok /\ out.val.z = 0)
    /\ (op = "g2_gen" => out.ok /\ out.val.z # 0 /\ to_affine(out.val) = to_affine(G2Generator))
    /\ (op = "g2_affine" => out.ok /\ PointEq(from_affine(out.val), point))
    /\ (op = "g2_group" => out.ok /\ to_affine(out.val) = hgen)
    /\ (op = "g2_vartime_multiscalar_mul" /\ Len(scalars[1]) = Len(bases) =>
          out.ok /\ PointEq(out.val, NaiveSum(scalars[1], bases, Len(bases))))

C11_Witness ==
  /\ op = "g2_from_label" /\ pc = "done"
  /\ count > 0 /\ label = TestLabel
  /\ ~out.ok

\* C12: in from_label's normalization, for every n and every worker count
\* T >= 1 with n > T, the ranges [i * chunk, end_i), chunk = ceil(n / T),
\* end_i = n for the last worker and min((i + 1) * chunk, n) otherwise, the
\* workers with end_i <= start_i contributing nothing, are pairwise
\* disjoint, contiguous and cover 0 .. n - 1; no worker computes
\* end - start below zero or slices past n; the concatenated output has
\* length n, its element j the affine form of projective point j, the same
\* as the single batch normalization taken when n <= T.
WorkerRange(i, n, T) ==
  LET start == chunk_start(i, CeilDiv(n, T))
      end == chunk_end(i, CeilDiv(n, T), n, T)
  IN IF end > start THEN start .. (end - 1) ELSE {}

C12_ChunkRangesPartition ==
  (op = "from_label" /\ pc = "done") =>
    LET n == count
        T == num_threads
        gens_proj == gens_proj_of(label, n)
        chunk == CeilDiv(n, T)
        Before(i) == UNION {WorkerRange(k, n, T) : k \in 0 .. (i - 1)}
    IN /\ (n > T =>
            /\ chunk * T >= n /\ (chunk - 1) * T < n
            /\ \A i \in 0 .. (T - 1) : \A k \in 0 .. (T - 1) :
                 i # k => WorkerRange(i, n, T) \cap WorkerRange(k, n, T) = {}
            /\ \A i \in 0 .. (T - 1) :
                 WorkerRange(i, n, T) # {} => Before(i) = 0 .. (chunk_start(i, chunk) - 1)
            /\ Before(T) = 0 .. (n - 1)
            /\ \A i \in 0 .. (T - 1) :
                 /\ chunk_start(i, chunk) >= 0
                 /\ chunk_end(i, chunk, n, T) <= n
                 /\ Len(normalize_chunk(gens_proj, i, chunk, T)) = Cardinality(WorkerRange(i, n, T))
                 /\ \A j \in WorkerRange(i, n, T) :
                      normalize_chunk(gens_proj, i, chunk, T)[j - chunk_start(i, chunk) + 1]
                        = to_affine(gens_proj[j + 1]))
       /\ out.ok
       /\ Len(out.val) = n
       /\ \A j \in 1 .. n : out.val[j] = to_affine(gens_proj[j])
       /\ out.val = batch_normalize(gens_proj)

\* more workers than chunks: the last worker starts past n and adds nothing
C12_Witness ==
  /\ op = "from_label" /\ pc = "done"
  /\ count > num_threads
  /\ chunk_start(num_threads - 1, CeilDiv(count, num_threads)) > count
  /\ WorkerRange(num_threads - 1, count, num_threads) = {}
  /\ out.ok /\ Len(out.val) = count

====
